---- MODULE Spec2Model ----
(***************************************************************************)
(* SpaceNet Rio chip classification data preparation                      *)
(* (notebooks/spacenet/SpaceNet - Rio - Chip Classification Data           *)
(* Prep.ipynb).  The notebook is a straight-line batch job: every code     *)
(* cell is one action, run in notebook order.                             *)
(*                                                                         *)
(* Geometry: every shape of the model is an axis-aligned rectangle on an   *)
(* integer grid, held as the closed 5-vertex ring that bounds_to_shape     *)
(* builds.  intersects follows shapely: shapes are closed sets, so two     *)
(* shapes that only touch intersect (with an intersection of area 0).      *)
(* Coverage fractions area / aoi_area are held as the integer numerator    *)
(* over the common denominator aoi_area; the comparison with ratio = 0.8   *)
(* is cross-multiplied.  Floating-point rounding is not modelled.          *)
(*                                                                         *)
(* Dictionaries: the notebook's kernel is Python 3.5.2, whose dict         *)
(* iterates in an arbitrary (hash-seed dependent) order of its keys; each  *)
(* iteration over a dict is a nondeterministic choice of a key order.      *)
(***************************************************************************)
EXTENDS Integers, Sequences, FiniteSets, TLC

VARIABLES
    pc,                   \* the next notebook cell to run
    image_files,          \* list of scene locators from the S3 listing
    raster_bounds,        \* external: locator -> ds.bounds of that raster
    label_file,           \* external: the raw label GeoJSON on disk
    image_to_extents,     \* dict: locator -> bounding polygon
    intersecting_images,  \* list of locators intersecting the AOI
    label_js,             \* the loaded (then mutated) label collection
    image_to_features,    \* dict: locator -> list of features
    processed_labels,     \* processed_labels_dir: file name -> content
    images_to_area,       \* dict: locator -> coverage numerator
    train_imgs,
    val_imgs,
    train_area_covered,   \* coverage numerator accumulated by training
    stdout,               \* what the split cell printed
    manifests             \* /opt/data/spacenet/rio/*.csv: name -> rows

vars == <<pc, image_files, raster_bounds, label_file, image_to_extents,
          intersecting_images, label_js, image_to_features, processed_labels,
          images_to_area, train_imgs, val_imgs, train_area_covered, stdout,
          manifests>>

----------------------------------------------------------------------------
(* Bounds and program constants *)

MaxFeatures == 1

RatioNum == 4

RatioDen == 5

None == "None"

target_label_prefix == "s3://raster-vision-spacenet/AOI_1_Rio/buildingLabels"

bucket == "spacenet-dataset"

----------------------------------------------------------------------------
(* Sequences and sets *)

Range(s) == {s[i] : i \in DOMAIN s}

Perms(S) == {s \in [1..Cardinality(S) -> S] : \A i, j \in DOMAIN s : i # j => s[i] # s[j]}

BoundedSeq(S, n) == UNION {[1..k -> S] : k \in 0..n}

MinOf(S) == CHOOSE x \in S : \A y \in S : x <= y

MaxOf(S) == CHOOSE x \in S : \A y \in S : x >= y

----------------------------------------------------------------------------
(* Geometry primitives (shapely Polygon restricted to rectangles) *)

Bounds(l, b, r, t) == [left |-> l, bottom |-> b, right |-> r, top |-> t]

bounds_to_shape(bounds) ==
    << <<bounds.left, bounds.bottom>>,
       <<bounds.left, bounds.top>>,
       <<bounds.right, bounds.top>>,
       <<bounds.right, bounds.bottom>>,
       <<bounds.left, bounds.bottom>> >>

Envelope(poly) ==
    [left   |-> MinOf({poly[i][1] : i \in DOMAIN poly}),
     bottom |-> MinOf({poly[i][2] : i \in DOMAIN poly}),
     right  |-> MaxOf({poly[i][1] : i \in DOMAIN poly}),
     top    |-> MaxOf({poly[i][2] : i \in DOMAIN poly})]

intersects(p, q) ==
    LET a == Envelope(p)
        b == Envelope(q)
    IN  /\ a.left <= b.right
        /\ b.left <= a.right
        /\ a.bottom <= b.top
        /\ b.bottom <= a.top

\* area of p.intersection(q); an empty or degenerate intersection has area 0
intersection_area(p, q) ==
    LET a == Envelope(p)
        b == Envelope(q)
        l == IF a.left > b.left THEN a.left ELSE b.left
        r == IF a.right < b.right THEN a.right ELSE b.right
        bo == IF a.bottom > b.bottom THEN a.bottom ELSE b.bottom
        t == IF a.top < b.top THEN a.top ELSE b.top
    IN  IF l < r /\ bo < t THEN (r - l) * (t - bo) ELSE 0

shape_area(p) == intersection_area(p, p)

----------------------------------------------------------------------------
(* Inputs *)

\* Rio_OUTLINE_Public_AOI.geojson, features[0].geometry
aoi == bounds_to_shape(Bounds(0, 0, 10, 4))

aoi_area == shape_area(aoi)

Key(d, s) == [dir |-> d, stem |-> s, ext |-> "tif"]

\* The object keys under the prefix, in the order S3 lists them
\* (ascending); two of them share a file name in different directories.
AllKeys == << Key("d1", "a"), Key("d1", "b"), Key("d2", "a") >>

\* 's3://{}/{}'.format(bucket, x['Key'])
Locator(key) == [bucket |-> bucket, dir |-> key.dir, stem |-> key.stem, ext |-> key.ext]

\* Raster extents a scene can have (rasterio bounds: left < right, bottom < top)
SceneBounds ==
    { Bounds(0, 0, 10, 2),    \* covers 0.5 of the AOI
      Bounds(0, 2, 6, 4),     \* covers 0.3
      Bounds(6, 2, 10, 4),    \* covers 0.2
      Bounds(0, 0, 12, 4),    \* covers 1.0
      Bounds(0, 0, 2, 2),     \* covers 0.1
      Bounds(10, 0, 14, 4),   \* touches the AOI: intersects, covers 0
      Bounds(12, 0, 14, 2) }  \* disjoint from the AOI

RawFeature(l, b, r, t, props) ==
    [type |-> "Feature", geometry |-> bounds_to_shape(Bounds(l, b, r, t)), properties |-> props]

\* Building footprints of the raw label file
RawFeatures ==
    { RawFeature(1, 1, 2, 3, [FID |-> 1]),
      RawFeature(13, 0, 14, 1, [FID |-> 3, class_id |-> 7]) }

Crs == "urn:ogc:def:crs:OGC:1.3:CRS84"

----------------------------------------------------------------------------
(* Helpers of the cells *)

\* os.path.splitext(os.path.basename(img))[0]
basename_of(img) == img.stem

\* os.path.join(processed_labels_dir, '{}.geojson'.format(basename))
label_file_name(img) == [stem |-> basename_of(img), ext |-> "geojson"]

\* os.path.join(target_label_prefix, '{}.geojson'.format(basename))
labels_path(img) == [prefix |-> target_label_prefix, stem |-> basename_of(img), ext |-> "geojson"]

\* variant: properties.setdefault(...) keeps a class_id the raw file had
inject_class_setdefault(feature) ==
    [feature EXCEPT !.properties =
        [k \in (DOMAIN feature.properties) \cup {"class_id", "class_name"} |->
            IF k \in DOMAIN feature.properties THEN feature.properties[k]
            ELSE IF k = "class_id" THEN 1
            ELSE "building"]]

\* feature['properties']['class_id'] = 1; ['class_name'] = 'building'
inject_class(feature) ==
    [feature EXCEPT !.properties =
        [k \in (DOMAIN feature.properties) \cup {"class_id", "class_name"} |->
            IF k = "class_id" THEN 1
            ELSE IF k = "class_name" THEN "building"
            ELSE feature.properties[k]]]

\* variant: tests the feature against the AOI instead of the scene's bbox
features_for_aoi(bbox, features) ==
    SelectSeq(features, LAMBDA feature : intersects(feature.geometry, aoi))

\* the inner loop of the partition cell: features of label_js that
\* intersect bbox, in label_js order
features_for(bbox, features) ==
    SelectSeq(features, LAMBDA feature : intersects(feature.geometry, bbox))

\* the fc dict written for one image
feature_collection(crs, features) ==
    [type |-> "FeatureCollection", crs |-> crs, features |-> features]

\* the loop of the label-writing cell over a key order: open(..., 'w')
\* replaces whatever the file held
RECURSIVE write_label_files(_, _, _, _)
write_label_files(order, i2f, crs, dir) ==
    IF order = <<>> THEN dir
    ELSE LET img == Head(order)
             name == label_file_name(img)
             fc == feature_collection(crs, i2f[img])
             written == [n \in (DOMAIN dir) \cup {name} |-> IF n = name THEN fc ELSE dir[n]]
         IN  write_label_files(Tail(order), i2f, crs, written)

\* variant: train_area_covered <= ratio
under_ratio_inclusive(acc) == acc * RatioDen <= RatioNum * aoi_area

\* train_area_covered < ratio, with ratio = RatioNum / RatioDen and
\* train_area_covered = acc / aoi_area
under_ratio(acc) == acc * RatioDen < RatioNum * aoi_area

\* list.sort is stable; reverse=True keeps the original order of equal keys
RECURSIVE insert_desc(_, _, _)
insert_desc(sorted, img, key) ==
    IF sorted = <<>> THEN <<img>>
    ELSE IF key[Head(sorted)] >= key[img]
         THEN <<Head(sorted)>> \o insert_desc(Tail(sorted), img, key)
         ELSE <<img>> \o sorted

\* variant: sorted(...) without reverse=True
RECURSIVE insert_asc(_, _, _)
insert_asc(sorted, img, key) ==
    IF sorted = <<>> THEN <<img>>
    ELSE IF key[Head(sorted)] <= key[img]
         THEN <<Head(sorted)>> \o insert_asc(Tail(sorted), img, key)
         ELSE <<img>> \o sorted

RECURSIVE sorted_ascending(_, _)
sorted_ascending(imgs, key) ==
    IF imgs = <<>> THEN <<>>
    ELSE insert_asc(sorted_ascending(SubSeq(imgs, 1, Len(imgs) - 1), key), imgs[Len(imgs)], key)

RECURSIVE sorted_reverse(_, _)
sorted_reverse(imgs, key) ==
    IF imgs = <<>> THEN <<>>
    ELSE insert_desc(sorted_reverse(SubSeq(imgs, 1, Len(imgs) - 1), key), imgs[Len(imgs)], key)

\* variant: the else branch is missing, a scene past the ratio is dropped
split_step_no_else(st, img, key) ==
    IF under_ratio(st.acc)
    THEN [train |-> Append(st.train, img), val |-> st.val, acc |-> st.acc + key[img]]
    ELSE st

\* one iteration of the split loop
split_step(st, img, key) ==
    IF under_ratio(st.acc)
    THEN [train |-> Append(st.train, img), val |-> st.val, acc |-> st.acc + key[img]]
    ELSE [train |-> st.train, val |-> Append(st.val, img), acc |-> st.acc]

RECURSIVE split_walk(_, _, _)
split_walk(st, order, key) ==
    IF order = <<>> THEN st
    ELSE split_walk(split_step(st, Head(order), key), Tail(order), key)

\* csv_rows of a manifest
csv_rows(imgs) == [i \in DOMAIN imgs |-> <<imgs[i], labels_path(imgs[i])>>]

----------------------------------------------------------------------------
(* State after the cells up to the S3 listing have run *)

Init ==
    /\ pc = "extents"
    /\ \E present \in (SUBSET Range(AllKeys)) \ {{}} :
          /\ image_files = [i \in DOMAIN SelectSeq(AllKeys, LAMBDA k : k \in present) |->
                              Locator(SelectSeq(AllKeys, LAMBDA k : k \in present)[i])]
          /\ raster_bounds \in [{Locator(k) : k \in present} -> SceneBounds]
    /\ label_file \in {feature_collection(Crs, fs) : fs \in BoundedSeq(RawFeatures, MaxFeatures)}
    /\ image_to_extents = <<>>
    /\ intersecting_images = <<>>
    /\ label_js = None
    /\ image_to_features = <<>>
    /\ processed_labels = <<>>
    /\ images_to_area = <<>>
    /\ train_imgs = <<>>
    /\ val_imgs = <<>>
    /\ train_area_covered = 0
    /\ stdout = <<>>
    /\ manifests = <<>>

----------------------------------------------------------------------------
(* The cells *)

\* image_to_extents[img] = bounds_to_shape(ds.bounds) for img in image_files
BuildExtents ==
    /\ pc = "extents"
    /\ image_to_extents' = [img \in Range(image_files) |-> bounds_to_shape(raster_bounds[img])]
    /\ pc' = "filter"
    /\ UNCHANGED <<image_files, raster_bounds, label_file, intersecting_images, label_js,
                   image_to_features, processed_labels, images_to_area, train_imgs,
                   val_imgs, train_area_covered, stdout, manifests>>

\* for img in image_to_extents: if ...intersects(aoi): append
FilterIntersecting ==
    /\ pc = "filter"
    /\ \E order \in Perms(DOMAIN image_to_extents) :
          intersecting_images' =
              SelectSeq(order, LAMBDA img : intersects(image_to_extents[img], aoi))
    /\ pc' = "load_labels"
    /\ UNCHANGED <<image_files, raster_bounds, label_file, image_to_extents, label_js,
                   image_to_features, processed_labels, images_to_area, train_imgs,
                   val_imgs, train_area_covered, stdout, manifests>>

\* label_js = json.loads(f.read())
LoadLabels ==
    /\ pc = "load_labels"
    /\ label_js' = label_file
    /\ pc' = "inject"
    /\ UNCHANGED <<image_files, raster_bounds, label_file, image_to_extents,
                   intersecting_images, image_to_features, processed_labels,
                   images_to_area, train_imgs, val_imgs, train_area_covered, stdout,
                   manifests>>

\* add class_id and class_name to every feature of label_js
InjectClass ==
    /\ pc = "inject"
    /\ label_js' = [label_js EXCEPT !.features =
                       [i \in DOMAIN label_js.features |-> inject_class(label_js.features[i])]]
    /\ pc' = "partition"
    /\ UNCHANGED <<image_files, raster_bounds, label_file, image_to_extents,
                   intersecting_images, image_to_features, processed_labels,
                   images_to_area, train_imgs, val_imgs, train_area_covered, stdout,
                   manifests>>

\* image_to_features[img] = features intersecting image_to_extents[img]
PartitionLabels ==
    /\ pc = "partition"
    /\ image_to_features' =
           [img \in Range(intersecting_images) |->
               features_for(image_to_extents[img], label_js.features)]
    /\ pc' = "write_labels"
    /\ UNCHANGED <<image_files, raster_bounds, label_file, image_to_extents,
                   intersecting_images, label_js, processed_labels, images_to_area,
                   train_imgs, val_imgs, train_area_covered, stdout, manifests>>

\* for img in image_to_features: write <basename>.geojson
WriteLabelFiles ==
    /\ pc = "write_labels"
    /\ \E order \in Perms(DOMAIN image_to_features) :
          processed_labels' =
              write_label_files(order, image_to_features, label_js.crs, processed_labels)
    /\ pc' = "split"
    /\ UNCHANGED <<image_files, raster_bounds, label_file, image_to_extents,
                   intersecting_images, label_js, image_to_features, images_to_area,
                   train_imgs, val_imgs, train_area_covered, stdout, manifests>>

\* the train / validation split cell
SplitTrainVal ==
    /\ pc = "split"
    /\ LET areas == [img \in Range(intersecting_images) |->
                        intersection_area(image_to_extents[img], aoi)]
           st == split_walk([train |-> <<>>, val |-> <<>>, acc |-> 0],
                            sorted_reverse(intersecting_images, areas), areas)
       IN  /\ images_to_area' = areas
           /\ train_imgs' = st.train
           /\ val_imgs' = st.val
           /\ train_area_covered' = st.acc
           /\ stdout' = stdout \o
                 << [line |-> "training images", count |-> Len(st.train), area |-> st.acc],
                    [line |-> "validation images", count |-> Len(st.val),
                     area |-> aoi_area - st.acc] >>
    /\ pc' = "train_csv"
    /\ UNCHANGED <<image_files, raster_bounds, label_file, image_to_extents,
                   intersecting_images, label_js, image_to_features, processed_labels,
                   manifests>>

\* training_scenes.csv
WriteTrainCsv ==
    /\ pc = "train_csv"
    /\ manifests' = [n \in (DOMAIN manifests) \cup {"training_scenes.csv"} |->
                        IF n = "training_scenes.csv" THEN csv_rows(train_imgs) ELSE manifests[n]]
    /\ pc' = "val_csv"
    /\ UNCHANGED <<image_files, raster_bounds, label_file, image_to_extents,
                   intersecting_images, label_js, image_to_features, processed_labels,
                   images_to_area, train_imgs, val_imgs, train_area_covered, stdout>>

\* val_scenes.csv
WriteValCsv ==
    /\ pc = "val_csv"
    /\ manifests' = [n \in (DOMAIN manifests) \cup {"val_scenes.csv"} |->
                        IF n = "val_scenes.csv" THEN csv_rows(val_imgs) ELSE manifests[n]]
    /\ pc' = "done"
    /\ UNCHANGED <<image_files, raster_bounds, label_file, image_to_extents,
                   intersecting_images, label_js, image_to_features, processed_labels,
                   images_to_area, train_imgs, val_imgs, train_area_covered, stdout>>

Next ==
    \/ BuildExtents
    \/ FilterIntersecting
    \/ LoadLabels
    \/ InjectClass
    \/ PartitionLabels
    \/ WriteLabelFiles
    \/ SplitTrainVal
    \/ WriteTrainCsv
    \/ WriteValCsv

Spec == Init /\ [][Next]_vars

----------------------------------------------------------------------------
(* Vocabulary of the properties, stated over the inputs of the run *)

PartitionDone == pc \in {"write_labels", "split", "train_csv", "val_csv", "done"}

LabelsWritten == pc \in {"split", "train_csv", "val_csv", "done"}

SplitDone == pc \in {"train_csv", "val_csv", "done"}

FilterDone == pc \notin {"extents", "filter"}

SceneBox(img) == bounds_to_shape(raster_bounds[img])

IntersectingSet == {img \in Range(image_files) : intersects(SceneBox(img), aoi)}

CoverageOf(img) == intersection_area(SceneBox(img), aoi)

RECURSIVE SumCoverage(_)
SumCoverage(imgs) ==
    IF imgs = <<>> THEN 0 ELSE CoverageOf(Head(imgs)) + SumCoverage(Tail(imgs))

BelowRatio(num) == num * RatioDen < RatioNum * aoi_area

SplitOrder == train_imgs \o val_imgs

NoRepeats(s) == \A i, j \in DOMAIN s : i # j => s[i] # s[j]

Occurrences(features, geometry) ==
    Cardinality({i \in DOMAIN features : features[i].geometry = geometry})

ClassKeys == {"class_id", "class_name"}

\* feature is a raw feature of the label file with exactly the two class
\* properties set and nothing else changed
InjectedFrom(feature, raw) ==
    /\ feature.type = raw.type
    /\ feature.geometry = raw.geometry
    /\ DOMAIN feature.properties = (DOMAIN raw.properties) \cup ClassKeys
    /\ \A k \in (DOMAIN raw.properties) \ ClassKeys : feature.properties[k] = raw.properties[k]
    /\ feature.properties["class_id"] = 1
    /\ feature.properties["class_name"] = "building"

WellLabelled(features) ==
    \A j \in DOMAIN features :
        \E i \in DOMAIN label_file.features : InjectedFrom(features[j], label_file.features[i])

KeyIndex(img) ==
    CHOOSE i \in DOMAIN AllKeys : Locator(AllKeys[i]) = img

\* descending coverage, ties by ascending identifier
CanonicalOrder ==
    CHOOSE s \in Perms(IntersectingSet) :
        \A i, j \in DOMAIN s :
            i < j => \/ CoverageOf(s[i]) > CoverageOf(s[j])
                     \/ /\ CoverageOf(s[i]) = CoverageOf(s[j])
                        /\ KeyIndex(s[i]) < KeyIndex(s[j])

CanonicalTrain ==
    SelectSeq(CanonicalOrder,
              LAMBDA img : \E i \in DOMAIN CanonicalOrder :
                              /\ CanonicalOrder[i] = img
                              /\ BelowRatio(SumCoverage(SubSeq(CanonicalOrder, 1, i - 1))))

CanonicalVal ==
    SelectSeq(CanonicalOrder, LAMBDA img : img \notin Range(CanonicalTrain))

----------------------------------------------------------------------------
(* Properties *)

\* C1: after the split, train_imgs and val_imgs partition the set of
\* intersecting scenes: every intersecting scene is in exactly one of the
\* two lists, exactly once, no other scene is in either, and the lengths
\* add up to the number of intersecting scenes.
C1_SplitPartitions ==
    SplitDone =>
        /\ Range(SplitOrder) = IntersectingSet
        /\ Range(SplitOrder) = Range(intersecting_images)
        /\ NoRepeats(SplitOrder)
        /\ Len(train_imgs) + Len(val_imgs) = Len(intersecting_images)
        /\ Len(train_imgs) + Len(val_imgs) = Cardinality(IntersectingSet)

C1_Witness ==
    /\ SplitDone
    /\ Len(intersecting_images) = 3
    /\ Len(train_imgs) = 2
    /\ Len(val_imgs) = 1
    /\ Cardinality(Range(image_files) \ IntersectingSet) = 0

\* C2: the split lists follow the descending-coverage order; the scene at
\* a position is in training iff the coverage summed over the positions
\* before it is strictly below the ratio, so training is a prefix,
\* validation the remaining suffix, and the training total without its
\* last scene is still below the ratio.
C2_SplitWalkRule ==
    SplitDone =>
        /\ \A i \in 1..(Len(SplitOrder) - 1) :
              CoverageOf(SplitOrder[i]) >= CoverageOf(SplitOrder[i + 1])
        /\ \A i \in DOMAIN SplitOrder :
              (i <= Len(train_imgs)) <=> BelowRatio(SumCoverage(SubSeq(SplitOrder, 1, i - 1)))
        /\ train_area_covered = SumCoverage(train_imgs)
        /\ train_imgs # <<>> =>
              BelowRatio(SumCoverage(train_imgs) - CoverageOf(train_imgs[Len(train_imgs)]))

\* coverages 0.5, 0.3, 0.2 of an AOI of area 40 with ratio 0.8
C2_Witness ==
    /\ SplitDone
    /\ Len(train_imgs) = 2
    /\ Len(val_imgs) = 1
    /\ CoverageOf(train_imgs[1]) = 20
    /\ CoverageOf(train_imgs[2]) = 12
    /\ CoverageOf(val_imgs[1]) = 8
    /\ train_area_covered * RatioDen = RatioNum * aoi_area

\* C3: a scene has a label collection iff it intersects the AOI, and a
\* feature of the label file is in a scene's collection (as often as it is
\* in the label file) iff its geometry intersects the scene's bounding box.
C3_LabelsByIntersection ==
    PartitionDone =>
        /\ DOMAIN image_to_features = IntersectingSet
        /\ \A img \in IntersectingSet :
              /\ \A i \in DOMAIN label_file.features :
                    LET geometry == label_file.features[i].geometry
                    IN  Occurrences(image_to_features[img], geometry) =
                            IF intersects(geometry, SceneBox(img))
                            THEN Occurrences(label_file.features, geometry)
                            ELSE 0
              /\ \A j \in DOMAIN image_to_features[img] :
                    \E i \in DOMAIN label_file.features :
                        image_to_features[img][j].geometry = label_file.features[i].geometry

\* one feature copied into two scenes, and a third intersecting scene that
\* the feature does not reach
C3_Witness ==
    /\ PartitionDone
    /\ label_file.features # <<>>
    /\ \E a, b, c \in DOMAIN image_to_features :
          /\ a # b
          /\ image_to_features[a] # <<>>
          /\ image_to_features[a] = image_to_features[b]
          /\ image_to_features[c] = <<>>

\* C4: no manifest file exists while the set of intersecting scenes is
\* empty (the run fails with EmptyIntersection instead of writing one).
C4_NoManifestWhenNoIntersection ==
    DOMAIN manifests # {} => intersecting_images # <<>>

\* C5: when the coverage of the scenes before the last one of the sorted
\* order stays below the ratio, every scene is in training, validation is
\* empty, and the run has reported a DegenerateSplit condition by the time
\* the training manifest is written.
C5_DegenerateSplitReported ==
    (/\ "training_scenes.csv" \in DOMAIN manifests
     /\ IntersectingSet # {}
     /\ \E last \in IntersectingSet :
           /\ \A img \in IntersectingSet : CoverageOf(last) <= CoverageOf(img)
           /\ BelowRatio(SumCoverage(SplitOrder) - CoverageOf(last)))
    => /\ val_imgs = <<>>
       /\ Len(train_imgs) = Cardinality(IntersectingSet)
       /\ \E i \in DOMAIN stdout : stdout[i].line = "DegenerateSplit"

\* C6: the split lists depend only on the set of scenes and their
\* coverage: they are the lists obtained from the order by descending
\* coverage with ties in ascending identifier order.
C6_SplitIndependentOfOrder ==
    SplitDone => /\ train_imgs = CanonicalTrain
                 /\ val_imgs = CanonicalVal

\* C7: the intersecting scenes are the subsequence of image_files whose
\* bounding polygon intersects the AOI, in the order of image_files.
C7_FilterKeepsListingOrder ==
    FilterDone =>
        intersecting_images = SelectSeq(image_files, LAMBDA img : intersects(SceneBox(img), aoi))

\* C8: after the label files are written there is one file per
\* intersecting scene, each holding the collection of its scene, and no
\* two scenes share a label file name.
C8_OneLabelFilePerScene ==
    LabelsWritten =>
        /\ Cardinality(DOMAIN processed_labels) = Len(intersecting_images)
        /\ \A img \in Range(intersecting_images) :
              /\ label_file_name(img) \in DOMAIN processed_labels
              /\ processed_labels[label_file_name(img)].features = image_to_features[img]
        /\ \A a, b \in Range(intersecting_images) :
              a # b => label_file_name(a) # label_file_name(b)

\* C9: from the partition step on, every feature of label_js, of every
\* scene's collection and of every label file written is a feature of the
\* raw label file with class_id = 1 and class_name = "building" set and
\* nothing else changed; copies of a feature in several scenes are equal.
C9_ClassPropertiesInjected ==
    (pc = "partition" \/ PartitionDone) =>
        /\ WellLabelled(label_js.features)
        /\ \A img \in DOMAIN image_to_features : WellLabelled(image_to_features[img])
        /\ \A n \in DOMAIN processed_labels : WellLabelled(processed_labels[n].features)
        /\ \A a, b \in DOMAIN image_to_features :
              \A j \in DOMAIN image_to_features[a] :
                 \A k \in DOMAIN image_to_features[b] :
                    image_to_features[a][j].geometry = image_to_features[b][k].geometry
                        => image_to_features[a][j] = image_to_features[b][k]

\* a written label file holds a feature whose raw class_id was not 1
C9_Witness ==
    /\ LabelsWritten
    /\ \E n \in DOMAIN processed_labels :
          \E j \in DOMAIN processed_labels[n].features :
             \E i \in DOMAIN label_file.features :
                /\ label_file.features[i].geometry = processed_labels[n].features[j].geometry
                /\ "class_id" \in DOMAIN label_file.features[i].properties
                /\ label_file.features[i].properties["class_id"] # 1
    /\ \E a, b \in DOMAIN image_to_features :
          a # b /\ image_to_features[a] # <<>> /\ image_to_features[b] # <<>>

\* C10: when some scene intersects, training is not empty and starts with
\* a scene of the largest coverage; if that coverage alone reaches the
\* ratio, it is the only training scene and all others are in validation.
C10_TrainingNeverEmpty ==
    (SplitDone /\ IntersectingSet # {}) =>
        /\ train_imgs # <<>>
        /\ \A img \in IntersectingSet : CoverageOf(train_imgs[1]) >= CoverageOf(img)
        /\ ~BelowRatio(CoverageOf(train_imgs[1])) =>
              /\ Len(train_imgs) = 1
              /\ Len(val_imgs) = Cardinality(IntersectingSet) - 1

C10_Witness ==
    /\ SplitDone
    /\ Len(train_imgs) = 1
    /\ Len(val_imgs) = 2
    /\ ~BelowRatio(CoverageOf(train_imgs[1]))
    /\ CoverageOf(val_imgs[1]) > 0

====
